---- MODULE Spec2Model ----
(***************************************************************************)
(* Model of the SNX tunnel session engine (src/src/tunnel.rs): the packet  *)
(* channel pump task, the client_hello handshake, the keepalive and        *)
(* reauthentication supervisor, the inbound handler task and the run loop. *)
(***************************************************************************)
EXTENDS Integers, Sequences, FiniteSets, TLC

(***************************************************************************)
(* Bounds of the model.                                                    *)
(***************************************************************************)
\* messages the pump task reads from the wire in one behaviour
MaxInbound == 3
\* packets the virtual interface produces in one behaviour
MaxTun == 1
\* longest call/acknowledgment sequence of the keepalive sequence harness
MaxSeqN == 4
\* packets a queue of the model holds: CHANNEL_SIZE (1024) scaled down.  A send
\* that waits for room in the model is a send the scheduler delays in the
\* program.
MaxQueue == 1
\* entries a log of the outbound direction keeps: the first MaxLog packets
MaxLog == 4

(***************************************************************************)
(* Program constants.                                                      *)
(***************************************************************************)
\* REAUTH_LEEWAY, in seconds
REAUTH_LEEWAY == 60
\* keepalive(): `load(..) >= 3`
KeepaliveLimit == 3
\* AtomicU64 is held as four 16-bit limbs, least significant first
LimbBase == 65536

\* Option<T>
None == [some |-> FALSE]

Some(v) == [some |-> TRUE, val |-> v]

(***************************************************************************)
(* AtomicU64 arithmetic (wrapping, as fetch_add / fetch_sub are).          *)
(***************************************************************************)
U64Zero == <<0, 0, 0, 0>>

U64Max == <<LimbBase - 1, LimbBase - 1, LimbBase - 1, LimbBase - 1>>

U64Of(n) == <<n, 0, 0, 0>>

U64IsSmall(c) == c[2] = 0 /\ c[3] = 0 /\ c[4] = 0

RECURSIVE U64Inc(_, _)
U64Inc(c, i) ==
    IF i > Len(c) THEN c
    ELSE IF c[i] < LimbBase - 1 THEN [c EXCEPT ![i] = @ + 1]
    ELSE U64Inc([c EXCEPT ![i] = 0], i + 1)

RECURSIVE U64Dec(_, _)
U64Dec(c, i) ==
    IF i > Len(c) THEN c
    ELSE IF c[i] > 0 THEN [c EXCEPT ![i] = @ - 1]
    ELSE U64Dec([c EXCEPT ![i] = LimbBase - 1], i + 1)

\* c >= n for a small n (n < LimbBase)
U64Ge(c, n) == ~U64IsSmall(c) \/ c[1] >= n

\* keepalive_counter.fetch_add(1, SeqCst)
FetchAdd_Two(c) == U64Inc(U64Inc(c, 1), 1)

FetchAdd(c) == U64Inc(c, 1)

\* keepalive_counter.fetch_sub(1, SeqCst)
FetchSub(c) == U64Dec(c, 1)

\* keepalive(): the liveness check on the loaded counter
KeepaliveStuck_Gt(c) == U64Ge(c, KeepaliveLimit + 1)

KeepaliveStuck(c) == U64Ge(c, KeepaliveLimit)

(***************************************************************************)
(* Strings that are parsed are sequences of one-character strings.         *)
(***************************************************************************)
DigitChars == {"0", "1", "2", "3", "4", "5", "6", "7", "8", "9"}

DigitVal(ch) ==
    CASE ch = "0" -> 0 [] ch = "1" -> 1 [] ch = "2" -> 2 [] ch = "3" -> 3
      [] ch = "4" -> 4 [] ch = "5" -> 5 [] ch = "6" -> 6 [] ch = "7" -> 7
      [] ch = "8" -> 8 [] ch = "9" -> 9

RECURSIVE DecimalValue(_)
DecimalValue(s) ==
    IF Len(s) = 0 THEN 0
    ELSE 10 * DecimalValue(SubSeq(s, 1, Len(s) - 1)) + DigitVal(s[Len(s)])

\* str::parse::<u64>().ok(): an optional leading "+", then one or more decimal
\* digits; None otherwise.  The strings of the model are too short to overflow.
ParseU64(s) ==
    LET body == IF Len(s) > 0 /\ s[1] = "+" THEN Tail(s) ELSE s
    IN  IF Len(body) = 0 \/ \E i \in 1..Len(body) : body[i] \notin DigitChars
        THEN None
        ELSE Some(DecimalValue(body))

HexChars == DigitChars \cup {"a", "b", "c", "d", "e", "f"}

HexVal(ch) ==
    CASE ch \in DigitChars -> DigitVal(ch)
      [] ch = "a" -> 10 [] ch = "b" -> 11 [] ch = "c" -> 12
      [] ch = "d" -> 13 [] ch = "e" -> 14 [] ch = "f" -> 15

RECURSIVE HexBytes(_)
HexBytes(s) ==
    IF Len(s) = 0 THEN <<>>
    ELSE <<16 * HexVal(s[1]) + HexVal(s[2])>> \o HexBytes(SubSeq(s, 3, Len(s)))

\* util::decode_from_hex: two hex digits per byte; an odd length or a
\* character that is no hex digit is an error.
DecodeFromHex(s) ==
    IF Len(s) % 2 # 0 \/ \E i \in 1..Len(s) : s[i] \notin HexChars
    THEN None
    ELSE Some(HexBytes(s))

\* String::from_utf8_lossy on the bytes the model uses: an ASCII byte is kept,
\* a byte that can start no UTF-8 sequence becomes U+FFFD (65533).
Utf8Lossy(bytes) == [i \in 1..Len(bytes) |-> IF bytes[i] < 128 THEN bytes[i] ELSE 65533]

(***************************************************************************)
(* Packets: SnxPacket::Control(name, value) and SnxPacket::Data(bytes).    *)
(***************************************************************************)
HelloReplyName == "hello_reply"

ClientHelloName == "client_hello"

KeepaliveName == "keepalive"

OtherControlName == "disconnect"

Control(name, value) == [type |-> "Control", name |-> name, value |-> value]

Data(bytes) == [type |-> "Data", data |-> bytes]

\* KeepaliveRequest { id: "0" }
KeepalivePacket == Control(KeepaliveName, [id |-> "0"])

\* new_hello_request(keep_address), as the Control packet send() makes of it
NewHelloRequest(ip, ck, keep_address) ==
    Control(ClientHelloName,
            [client_version |-> "1", protocol_version |-> "1",
             protocol_minor_version |-> "1",
             office_mode |-> [ipaddr |-> ip,
                              keep_address |-> IF keep_address THEN "true" ELSE "false"],
             optional |-> [client_type |-> "4"],
             cookie |-> ck])

(***************************************************************************)
(* What the server and the authenticator may answer.                       *)
(***************************************************************************)
UnassignedIp == "0.0.0.0"

AssignedIp == "10.0.0.5"

\* the lifetimes and intervals servers declare, as decimal strings or not
AuthStrings == {<<"1", "2", "0">>, <<"9", "0">>, <<"6", "0">>, <<"3", "0">>,
                <<"a", "b", "c">>}

KeepaliveStrings == {<<"3", "0">>, <<"9", "0">>, <<"a", "b", "c">>}

\* the hello reply of a server that declares the lifetime a and the interval k
\* (both decimal strings), and a value serde_json::from_value::<HelloReply>
\* rejects
HelloReplyValue(a, k) ==
    [valid |-> TRUE, ipaddr |-> AssignedIp, authentication |-> a, keepalive |-> k]

MalformedReplyValue == [valid |-> FALSE]

\* the address a server may name in its reply to a refresh hello
ReassignedIp == "10.0.0.9"

RefreshReplyValue(a, k) == [HelloReplyValue(a, k) EXCEPT !.ipaddr = ReassignedIp]

\* The n-th packet the codec decodes from the wire; n labels a Data payload.
\* client_hello takes one message, the first of the queue, and the handler
\* matches `Control(name, _)` and compares the name with one constant: only the
\* first packet's value is ever read and later names matter only as keepalive
\* or not.
InboundPackets(n, a, k) ==
    {Control(HelloReplyName,
             IF n = 1 THEN HelloReplyValue(a, k) ELSE RefreshReplyValue(a, k)),
     Control(KeepaliveName, [id |-> "0"]),
     Data(n)}
    \cup IF n = 1
         THEN {Control(HelloReplyName, MalformedReplyValue),
               Control(OtherControlName, [id |-> "0"])}
         ELSE {}

\* "c1" and "sess1": what the first authentication returned
InitCookie == <<99, 49>>

InitSessionId == "sess1"

\* responses of SnxHttpAuthenticator::authenticate (failed: the call itself fails)
AuthResponses ==
    {[failed |-> FALSE, is_authenticated |-> "true",
      active_key |-> Some(<<"6", "3", "3", "2">>), session_id |-> Some("sess2")],
     [failed |-> FALSE, is_authenticated |-> "true",
      active_key |-> Some(<<"6", "3", "z">>), session_id |-> Some("sess2")],
     [failed |-> FALSE, is_authenticated |-> "true",
      active_key |-> None, session_id |-> Some("sess2")],
     [failed |-> FALSE, is_authenticated |-> "false",
      active_key |-> Some(<<"6", "3", "3", "2">>), session_id |-> Some("sess2")],
     [failed |-> TRUE]}

(***************************************************************************)
(* Errors.                                                                 *)
(***************************************************************************)
ErrStuck == "No response for keepalive packets, tunnel appears stuck"

ErrChannelClosed == "Channel closed!"

ErrUnexpectedReply == "Unexpected reply"

ErrInvalidAuthTimeout == "Invalid auth timeout!"

ErrInvalidKeepalive == "Invalid keepalive timeout!"

ErrAuthFailed == "Authentication failed!"

ErrSend == "send failed because receiver is gone"

ErrSerde == "invalid HelloReply value"

ErrHex == "invalid hex string"

ErrAuthenticator == "authenticator request failed"

\* the `-` of Duration panics: "overflow when subtracting durations"
Panic == "panic: overflow when subtracting durations"

(***************************************************************************)
(* Pure parts of the operations.                                           *)
(***************************************************************************)
\* authenticate taking any response with a key for a success
Authenticate_AnyKey(resp) ==
    IF resp.failed THEN [ok |-> FALSE, err |-> ErrAuthenticator]
    ELSE IF resp.active_key.some
    THEN LET bytes == DecodeFromHex(resp.active_key.val)
         IN  IF ~bytes.some THEN [ok |-> FALSE, err |-> ErrHex]
             ELSE [ok |-> TRUE,
                   session_id |-> IF resp.session_id.some THEN resp.session_id.val ELSE "",
                   cookie |-> Utf8Lossy(bytes.val)]
    ELSE [ok |-> FALSE, err |-> ErrAuthFailed]

\* SnxClient::authenticate on the authenticator's response
Authenticate(resp) ==
    IF resp.failed THEN [ok |-> FALSE, err |-> ErrAuthenticator]
    ELSE IF resp.is_authenticated = "true" /\ resp.active_key.some
    THEN LET bytes == DecodeFromHex(resp.active_key.val)
         IN  IF ~bytes.some THEN [ok |-> FALSE, err |-> ErrHex]
             ELSE [ok |-> TRUE,
                   session_id |-> IF resp.session_id.some THEN resp.session_id.val ELSE "",
                   cookie |-> Utf8Lossy(bytes.val)]
    ELSE [ok |-> FALSE, err |-> ErrAuthFailed]

\* client_hello: the match on the reply, field by field in the order of the
\* code.  st holds ip_address, auth_timeout, keepalive before the call; the
\* result holds them after it, with the outcome of the call.
HelloMatch(reply, st) ==
    IF reply.type = "Control" /\ reply.name = HelloReplyName
    THEN IF ~reply.value.valid THEN [st EXCEPT !.result = ErrSerde]
         ELSE LET st1 == [st EXCEPT !.ip_address = reply.value.ipaddr]
                  a == ParseU64(reply.value.authentication)
                  k == ParseU64(reply.value.keepalive)
              IN  IF ~a.some THEN [st1 EXCEPT !.result = ErrInvalidAuthTimeout]
                  ELSE IF a.val < REAUTH_LEEWAY THEN [st1 EXCEPT !.result = Panic]
                  ELSE LET st2 == [st1 EXCEPT !.auth_timeout = a.val - REAUTH_LEEWAY]
                       IN  IF ~k.some THEN [st2 EXCEPT !.result = ErrInvalidKeepalive]
                           ELSE [st2 EXCEPT !.keepalive = k.val, !.result = "ok"]
    ELSE [st EXCEPT !.result = ErrUnexpectedReply]

\* Receiver::next() yields None: the queue is empty and its senders are gone
ReceiverClosed_Never(q, p) == FALSE

ReceiverClosed(q, p) == Len(q) = 0 /\ p = "done"

\* the inbound handler's Control branch, on the counter
InboundControl(name, c) == IF name = KeepaliveName THEN FetchSub(c) ELSE c

\* the inbound handler's Data branch, on the counter: store(0)
InboundData_Keep(c) == c

InboundData(c) == U64Zero

\* the delays after which the virtual interface may win the select against
\* sleep(keepalive)
TunDelays(k) == {0, k}

(***************************************************************************)
(* State.                                                                  *)
(***************************************************************************)
VARIABLES
    \* the server: the lifetime and the interval its hello replies declare
    serverAuth,
    serverKeepalive,
    \* SnxTunnel
    reauth,             \* params.reauth
    cookie,
    session_id,
    auth_timeout,       \* seconds
    keepalive,          \* seconds
    ip_address,
    keepalive_counter,  \* Arc<AtomicU64>
    \* the caller's task: client_hello, then run
    mainPc,
    helloResult,        \* "pending", "ok", an error or Panic
    helloSent,          \* the packets client_hello enqueued
    helloSeen,          \* the inbound messages client_hello consumed
    runResult,          \* "running", "ok" or the error run returned
    tunEvent,           \* how the virtual interface's stream stopped: "end", "error"
    elapsed,            \* Instant::now() - now, seconds
    tunCount,           \* packets the virtual interface has produced
    \* packet channel
    pump,               \* the pump task: "running" or "done"
    outQ,               \* the outbound queue
    inQ,                \* the inbound queue
    nRead,              \* packets decoded from the wire
    \* inbound handler task
    handlerPc,
    handlerItem,        \* the Data payload being written to the interface
    tunWritten,         \* payloads written to the virtual interface
    \* history
    unacked,            \* probes sent since the last Data, less acknowledgments
    \* the keepalive sequence harness
    seqStart, seqN, seqCalls, seqAcks,
    \* history of the packet channel
    history,            \* whether the logs of the outbound direction are kept
    enqueued,           \* the packets the session enqueued, in send order
    wired,              \* the packets the pump task wrote to the wire
    decoded,            \* the Data payloads decoded from the wire after the first message
    \* the authenticate harness
    authResp, authResult

sessionVars == <<reauth, cookie, session_id, auth_timeout, keepalive, ip_address>>

helloVars == <<helloResult, helloSent, helloSeen>>

mainVars == <<mainPc, helloVars, runResult, tunEvent, elapsed, tunCount>>

channelVars == <<pump, outQ, inQ, nRead>>

handlerVars == <<handlerPc, handlerItem, tunWritten>>

seqVars == <<seqStart, seqN, seqCalls, seqAcks>>

serverVars == <<serverAuth, serverKeepalive>>

logVars == <<history, enqueued, wired, decoded>>

authVars == <<authResp, authResult>>

vars == <<serverVars, sessionVars, keepalive_counter, mainVars, channelVars, handlerVars,
          unacked, seqVars, logVars, authVars>>

\* create_tunnel: the session as constructed, the pump task spawned
SessionInit ==
    /\ reauth \in BOOLEAN
    /\ cookie = InitCookie
    /\ session_id = InitSessionId
    /\ auth_timeout = 0
    /\ keepalive = 0
    /\ ip_address = UnassignedIp
    /\ keepalive_counter = U64Zero
    /\ mainPc = "connected"
    /\ helloResult = "pending"
    /\ helloSent = <<>>
    /\ helloSeen = <<>>
    /\ runResult = "running"
    /\ tunEvent = "none"
    /\ elapsed = 0
    /\ tunCount = 0
    /\ pump = "running"
    /\ outQ = <<>>
    /\ inQ = <<>>
    /\ nRead = 0
    /\ handlerPc = "unspawned"
    /\ handlerItem = 0
    /\ tunWritten = <<>>
    /\ unacked = 0
    /\ seqStart = U64Zero
    /\ seqN = 0
    /\ seqCalls = 0
    /\ seqAcks = 0
    /\ enqueued = <<>>
    /\ wired = <<>>
    /\ decoded = <<>>
    /\ authResp = [failed |-> TRUE]
    /\ authResult = None

Init ==
    /\ serverAuth \in AuthStrings
    /\ serverKeepalive \in KeepaliveStrings
    /\ history = FALSE
    /\ SessionInit

\* the outbound queue's receiver is alive
ChannelOpen_Always == TRUE

ChannelOpen == pump = "running"

OutboundHasRoom == Len(outQ) < MaxQueue

\* the inbound queue's receiver has been dropped
ReceiverDropped == handlerPc \in {"failed", "done"}

\* the outbound senders outliving the session
SenderDropped_Never == FALSE

\* the session (and with it every outbound sender) has been dropped
SenderDropped == mainPc = "terminated"

Max0(n) == IF n < 0 THEN 0 ELSE n

\* a log of the outbound direction takes one more entry
Record(log, m) == IF history /\ Len(log) < MaxLog THEN Append(log, m) ELSE log

\* the deadline check without the configuration flag
ReauthCheck_NoFlag == IF elapsed >= auth_timeout THEN "reauth" ELSE "select"

\* the end of a loop iteration:
\* if self.params.reauth && (Instant::now() - now) >= self.auth_timeout
ReauthCheck == IF reauth /\ elapsed >= auth_timeout THEN "reauth" ELSE "select"

(***************************************************************************)
(* client_hello                                                            *)
(***************************************************************************)
\* self.send(new_hello_request(false)).await?
ClientHelloSend ==
    /\ mainPc = "connected"
    /\ \/ /\ ChannelOpen
          /\ OutboundHasRoom
          /\ outQ' = Append(outQ, NewHelloRequest(ip_address, cookie, FALSE))
          /\ enqueued' = Record(enqueued, NewHelloRequest(ip_address, cookie, FALSE))
          /\ helloSent' = Append(helloSent,
                                 NewHelloRequest(ip_address, cookie, FALSE))
          /\ mainPc' = "hello_recv"
          /\ UNCHANGED helloResult
       \/ /\ ~ChannelOpen
          /\ mainPc' = "hello_failed"
          /\ helloResult' = ErrSend
          /\ UNCHANGED <<outQ, helloSent, enqueued>>
    /\ UNCHANGED <<serverVars, sessionVars, keepalive_counter, helloSeen, runResult,
                   tunEvent, elapsed, tunCount, pump, inQ, nRead, handlerVars,
                   unacked, seqVars, history, wired, decoded,
                   authVars>>

\* receiver.next().await, then the match on the reply
ClientHelloRecv ==
    /\ mainPc = "hello_recv"
    /\ \/ /\ Len(inQ) > 0
          /\ LET out == HelloMatch(Head(inQ),
                                   [ip_address |-> ip_address,
                                    auth_timeout |-> auth_timeout,
                                    keepalive |-> keepalive,
                                    result |-> "pending"])
             IN  /\ inQ' = Tail(inQ)
                 /\ helloSeen' = Append(helloSeen, Head(inQ))
                 /\ ip_address' = out.ip_address
                 /\ auth_timeout' = out.auth_timeout
                 /\ keepalive' = out.keepalive
                 /\ helloResult' = out.result
                 /\ mainPc' = IF out.result = "ok" THEN "established"
                              ELSE IF out.result = Panic THEN "panicked"
                              ELSE "hello_failed"
       \/ /\ ReceiverClosed(inQ, pump)
          /\ helloResult' = ErrChannelClosed
          /\ mainPc' = "hello_failed"
          /\ UNCHANGED <<inQ, helloSeen, ip_address, auth_timeout, keepalive>>
    /\ UNCHANGED <<serverVars, reauth, cookie, session_id, keepalive_counter,
                   helloSent, runResult, tunEvent, elapsed, tunCount, pump, outQ,
                   nRead, handlerVars, unacked, seqVars, logVars,
                   authVars>>

(***************************************************************************)
(* run: the main loop                                                      *)
(***************************************************************************)
\* run up to the loop: the inbound handler task is spawned, now = Instant::now()
RunStart ==
    /\ mainPc = "established"
    /\ mainPc' = "select"
    /\ handlerPc' = "recv"
    /\ elapsed' = 0
    /\ UNCHANGED <<serverVars, sessionVars, keepalive_counter, helloVars, runResult,
                   tunEvent, tunCount, channelVars, handlerItem, tunWritten,
                   unacked, seqVars, logVars,
                   authVars>>

\* select: sleep(self.keepalive) completes; keepalive() loads the counter
TimerFires ==
    /\ mainPc = "select"
    /\ elapsed' = IF reauth THEN elapsed + keepalive ELSE elapsed
    /\ IF KeepaliveStuck(keepalive_counter)
       THEN /\ mainPc' = "terminated"
            /\ runResult' = ErrStuck
       ELSE /\ mainPc' = "ka_add"
            /\ UNCHANGED runResult
    /\ UNCHANGED <<serverVars, sessionVars, keepalive_counter, helloVars, tunEvent,
                   tunCount, channelVars, handlerVars, unacked, seqVars, logVars,
                   authVars>>

\* keepalive(): fetch_add(1)
KeepaliveAdd ==
    /\ mainPc = "ka_add"
    /\ keepalive_counter' = FetchAdd(keepalive_counter)
    /\ unacked' = unacked + 1
    /\ mainPc' = "ka_send"
    /\ UNCHANGED <<serverVars, sessionVars, helloVars, runResult, tunEvent, elapsed,
                   tunCount, channelVars, handlerVars, seqVars, logVars,
                   authVars>>

\* keepalive(): self.send(req).await?
KeepaliveSend ==
    /\ mainPc = "ka_send"
    /\ \/ /\ ChannelOpen
          /\ OutboundHasRoom
          /\ outQ' = Append(outQ, KeepalivePacket)
          /\ enqueued' = Record(enqueued, KeepalivePacket)
          /\ mainPc' = ReauthCheck
          /\ UNCHANGED runResult
       \/ /\ ~ChannelOpen
          /\ mainPc' = "terminated"
          /\ runResult' = ErrSend
          /\ UNCHANGED <<outQ, enqueued>>
    /\ UNCHANGED <<serverVars, sessionVars, keepalive_counter, helloVars, tunEvent,
                   elapsed, tunCount, pump, inQ, nRead, handlerVars,
                   unacked, seqVars, history, wired, decoded,
                   authVars>>

\* select: tun_receiver.next() yields Some(Ok(item))
TunPacket ==
    /\ mainPc = "select"
    /\ tunCount < MaxTun
    /\ tunCount' = tunCount + 1
    /\ \E d \in TunDelays(keepalive) :
          elapsed' = IF reauth THEN elapsed + d ELSE elapsed
    /\ mainPc' = "tun_send"
    /\ UNCHANGED <<serverVars, sessionVars, keepalive_counter, helloVars, runResult,
                   tunEvent, channelVars, handlerVars, unacked, seqVars, logVars,
                   authVars>>

\* self.send(data).await?
TunSend ==
    /\ mainPc = "tun_send"
    /\ \/ /\ ChannelOpen
          /\ OutboundHasRoom
          /\ outQ' = Append(outQ, Data(tunCount))
          /\ enqueued' = Record(enqueued, Data(tunCount))
          /\ mainPc' = ReauthCheck
          /\ UNCHANGED runResult
       \/ /\ ~ChannelOpen
          /\ mainPc' = "terminated"
          /\ runResult' = ErrSend
          /\ UNCHANGED <<outQ, enqueued>>
    /\ UNCHANGED <<serverVars, sessionVars, keepalive_counter, helloVars, tunEvent,
                   elapsed, tunCount, pump, inQ, nRead, handlerVars,
                   unacked, seqVars, history, wired, decoded,
                   authVars>>

\* select: tun_receiver.next() yields None: break, Ok(())
TunEnd ==
    /\ mainPc = "select"
    /\ tunEvent' = "end"
    /\ mainPc' = "terminated"
    /\ runResult' = "ok"
    /\ UNCHANGED <<serverVars, sessionVars, keepalive_counter, helloVars, elapsed,
                   tunCount, channelVars, handlerVars, unacked, seqVars, logVars,
                   authVars>>

\* select: tun_receiver.next() yields Some(Err(_)): the else branch, break, Ok(())
TunError ==
    /\ mainPc = "select"
    /\ tunEvent' = "error"
    /\ mainPc' = "terminated"
    /\ runResult' = "ok"
    /\ UNCHANGED <<serverVars, sessionVars, keepalive_counter, helloVars, elapsed,
                   tunCount, channelVars, handlerVars, unacked, seqVars, logVars,
                   authVars>>

\* reauth() with the session id taken from the response before the key is
\* decoded
ReauthAuthenticate_Partial ==
    /\ mainPc = "reauth"
    /\ \E resp \in AuthResponses :
          LET r == Authenticate(resp)
          IN  IF r.ok
              THEN /\ session_id' = r.session_id
                   /\ cookie' = r.cookie
                   /\ mainPc' = "reauth_send"
                   /\ UNCHANGED runResult
              ELSE /\ mainPc' = "terminated"
                   /\ runResult' = r.err
                   /\ session_id' = IF r.err = ErrHex THEN resp.session_id.val
                                    ELSE session_id
                   /\ UNCHANGED cookie
    /\ UNCHANGED <<serverVars, reauth, auth_timeout, keepalive, ip_address, keepalive_counter,
                   helloVars, tunEvent, elapsed, tunCount, channelVars,
                   handlerVars, unacked, seqVars, logVars,
                   authVars>>

\* reauth(): client.authenticate(Some(&self.session_id)).await?, then both
\* fields are assigned
ReauthAuthenticate ==
    /\ mainPc = "reauth"
    /\ \E resp \in AuthResponses :
          LET r == Authenticate(resp)
          IN  IF r.ok
              THEN /\ session_id' = r.session_id
                   /\ cookie' = r.cookie
                   /\ mainPc' = "reauth_send"
                   /\ UNCHANGED runResult
              ELSE /\ mainPc' = "terminated"
                   /\ runResult' = r.err
                   /\ UNCHANGED <<session_id, cookie>>
    /\ UNCHANGED <<serverVars, reauth, auth_timeout, keepalive, ip_address, keepalive_counter,
                   helloVars, tunEvent, elapsed, tunCount, channelVars,
                   handlerVars, unacked, seqVars, logVars,
                   authVars>>

\* reauth(): self.send(new_hello_request(true)).await?; then now = Instant::now()
ReauthSend ==
    /\ mainPc = "reauth_send"
    /\ \/ /\ ChannelOpen
          /\ OutboundHasRoom
          /\ outQ' = Append(outQ, NewHelloRequest(ip_address, cookie, TRUE))
          /\ enqueued' = Record(enqueued, NewHelloRequest(ip_address, cookie, TRUE))
          /\ elapsed' = 0
          /\ mainPc' = "select"
          /\ UNCHANGED runResult
       \/ /\ ~ChannelOpen
          /\ mainPc' = "terminated"
          /\ runResult' = ErrSend
          /\ UNCHANGED <<outQ, elapsed, enqueued>>
    /\ UNCHANGED <<serverVars, sessionVars, keepalive_counter, helloVars, tunEvent,
                   tunCount, pump, inQ, nRead, handlerVars, unacked,
                   seqVars, history, wired, decoded,
                   authVars>>

(***************************************************************************)
(* make_channel: the pump task, select(to_wire, from_wire)                 *)
(***************************************************************************)
\* the task ends: rx_out and tx_in are dropped with it, so the outbound
\* queue and what it still held are gone, and the inbound queue keeps what
\* it holds for its receiver and gets no more
PumpExit ==
    /\ pump' = "done"
    /\ outQ' = <<>>

\* to_wire taking the next queued packet and writing nothing
PumpToWire_Skip ==
    /\ pump = "running"
    /\ Len(outQ) > 0
    /\ outQ' = Tail(outQ)
    /\ UNCHANGED <<serverVars, sessionVars, keepalive_counter, mainVars, pump, inQ,
                   nRead, handlerVars, unacked, seqVars, logVars, authVars>>

\* to_wire: the next queued packet is written to the wire
PumpToWire ==
    /\ pump = "running"
    /\ Len(outQ) > 0
    /\ outQ' = Tail(outQ)
    /\ wired' = Record(wired, Head(outQ))
    /\ UNCHANGED <<serverVars, sessionVars, keepalive_counter, mainVars, pump, inQ,
                   nRead, handlerVars, unacked, seqVars, history, enqueued, decoded,
                   authVars>>

\* to_wire fails on a write error
PumpWriteError ==
    /\ pump = "running"
    /\ Len(outQ) > 0
    /\ PumpExit
    /\ UNCHANGED <<serverVars, sessionVars, keepalive_counter, mainVars, inQ, nRead,
                   handlerVars, unacked, seqVars, logVars,
                   authVars>>

\* to_wire completes: every sender is dropped and the queue is drained
PumpOutboundClosed ==
    /\ pump = "running"
    /\ SenderDropped
    /\ Len(outQ) = 0
    /\ PumpExit
    /\ UNCHANGED <<serverVars, sessionVars, keepalive_counter, mainVars, inQ, nRead,
                   handlerVars, unacked, seqVars, logVars,
                   authVars>>

\* from_wire: a packet is decoded and forwarded to the inbound queue; the
\* forward fails, ending the task, when the queue's receiver is gone
PumpFromWire ==
    /\ pump = "running"
    /\ nRead < MaxInbound
    /\ nRead' = nRead + 1
    /\ \E m \in InboundPackets(nRead + 1, serverAuth, serverKeepalive) :
          /\ decoded' = IF m.type = "Data" /\ nRead >= 1 THEN Append(decoded, m.data)
                        ELSE decoded
          /\ \/ /\ ~ReceiverDropped
                /\ Len(inQ) < MaxQueue
                /\ inQ' = Append(inQ, m)
                /\ UNCHANGED <<pump, outQ>>
             \/ /\ ReceiverDropped
                /\ PumpExit
                /\ UNCHANGED inQ
    /\ UNCHANGED <<serverVars, sessionVars, keepalive_counter, mainVars, handlerVars,
                   unacked, seqVars, history, enqueued, wired,
                   authVars>>

\* from_wire ends: end of stream, a read error or a decode error
PumpWireClosed ==
    /\ pump = "running"
    /\ PumpExit
    /\ UNCHANGED <<serverVars, sessionVars, keepalive_counter, mainVars, inQ, nRead,
                   handlerVars, unacked, seqVars, logVars,
                   authVars>>

(***************************************************************************)
(* run: the inbound handler task                                           *)
(***************************************************************************)
\* the handler taking a handshake reply as client_hello does: the address the
\* reply names becomes the session's
HandlerRecv_AppliesReply ==
    /\ handlerPc = "recv"
    /\ Len(inQ) > 0
    /\ inQ' = Tail(inQ)
    /\ LET item == Head(inQ)
       IN  \/ /\ item.type = "Control"
              /\ keepalive_counter' = InboundControl(item.name, keepalive_counter)
              /\ unacked' = IF item.name = KeepaliveName THEN Max0(unacked - 1)
                            ELSE unacked
              /\ ip_address' = IF item.name = HelloReplyName /\ item.value.valid
                               THEN item.value.ipaddr ELSE ip_address
              /\ UNCHANGED <<handlerPc, handlerItem>>
           \/ /\ item.type = "Data"
              /\ keepalive_counter' = InboundData(keepalive_counter)
              /\ unacked' = 0
              /\ handlerPc' = "write"
              /\ handlerItem' = item.data
              /\ UNCHANGED ip_address
    /\ UNCHANGED <<serverVars, reauth, cookie, session_id, auth_timeout, keepalive,
                   mainVars, pump, outQ, nRead, tunWritten, seqVars, logVars,
                   authVars>>

\* snx_receiver.next() yields Some(item); the match up to the interface write
HandlerRecv ==
    /\ handlerPc = "recv"
    /\ Len(inQ) > 0
    /\ inQ' = Tail(inQ)
    /\ LET item == Head(inQ)
       IN  \/ /\ item.type = "Control"
              /\ keepalive_counter' = InboundControl(item.name, keepalive_counter)
              /\ unacked' = IF item.name = KeepaliveName THEN Max0(unacked - 1)
                            ELSE unacked
              /\ UNCHANGED <<handlerPc, handlerItem>>
           \/ /\ item.type = "Data"
              /\ keepalive_counter' = InboundData(keepalive_counter)
              /\ unacked' = 0
              /\ handlerPc' = "write"
              /\ handlerItem' = item.data
    /\ UNCHANGED <<serverVars, sessionVars, mainVars, pump, outQ, nRead, tunWritten,
                   seqVars, logVars,
                   authVars>>

\* tun_sender.send(tun_packet).await?
HandlerWrite ==
    /\ handlerPc = "write"
    /\ \/ /\ tunWritten' = Append(tunWritten, handlerItem)
          /\ handlerPc' = "recv"
       \/ /\ handlerPc' = "failed"
          /\ UNCHANGED tunWritten
    /\ handlerItem' = 0
    /\ UNCHANGED <<serverVars, sessionVars, keepalive_counter, mainVars, channelVars, unacked,
                   seqVars, logVars,
                   authVars>>

\* snx_receiver.next() yields None: the while loop ends, Ok(())
HandlerEnd ==
    /\ handlerPc = "recv"
    /\ ReceiverClosed(inQ, pump)
    /\ handlerPc' = "done"
    /\ UNCHANGED <<serverVars, sessionVars, keepalive_counter, mainVars, channelVars, handlerItem,
                   tunWritten, unacked, seqVars, logVars,
                   authVars>>

Next ==
    \/ ClientHelloSend
    \/ ClientHelloRecv
    \/ RunStart
    \/ TimerFires
    \/ KeepaliveAdd
    \/ KeepaliveSend
    \/ TunPacket
    \/ TunSend
    \/ TunEnd
    \/ TunError
    \/ ReauthAuthenticate
    \/ ReauthSend
    \/ PumpToWire
    \/ PumpWriteError
    \/ PumpOutboundClosed
    \/ PumpFromWire
    \/ PumpWireClosed
    \/ HandlerRecv
    \/ HandlerWrite
    \/ HandlerEnd

Spec == Init /\ [][Next]_vars

\* the runtime polls every task that can make progress: the caller's task,
\* the inbound handler task and the pump's own work; the wire (the server)
\* owes nothing
MainStep ==
    \/ ClientHelloSend
    \/ ClientHelloRecv
    \/ RunStart
    \/ KeepaliveAdd
    \/ KeepaliveSend
    \/ TunSend
    \/ ReauthSend

HandlerStep == HandlerRecv \/ HandlerWrite \/ HandlerEnd

FairSpec ==
    /\ Spec
    /\ WF_vars(MainStep)
    /\ WF_vars(HandlerStep)
    /\ WF_vars(PumpToWire \/ PumpOutboundClosed)

(***************************************************************************)
(* The run loop under sustained traffic of the virtual interface.          *)
(***************************************************************************)
\* select: tun_receiver.next() yields Some(Ok(item)) once more, after the
\* MaxTun payloads the model tells apart; the payload is the last one again
TunPacketMore ==
    /\ mainPc = "select"
    /\ tunCount = MaxTun
    /\ \E d \in TunDelays(keepalive) :
          elapsed' = IF reauth THEN elapsed + d ELSE elapsed
    /\ mainPc' = "tun_send"
    /\ UNCHANGED <<serverVars, sessionVars, keepalive_counter, helloVars, runResult,
                   tunEvent, tunCount, channelVars, handlerVars, unacked, seqVars, logVars,
                   authVars>>

BusyNext == Next \/ TunPacketMore

\* as FairSpec, and: sleep(self.keepalive) completes when the select waits
\* that long with no packet of the virtual interface (every iteration makes
\* a new sleep, so a timer that is interrupted again and again owes nothing),
\* and the authenticator answers
BusySpec ==
    /\ Init
    /\ [][BusyNext]_vars
    /\ WF_vars(MainStep)
    /\ WF_vars(HandlerStep)
    /\ WF_vars(PumpToWire \/ PumpOutboundClosed)
    /\ WF_vars(TimerFires)
    /\ WF_vars(ReauthAuthenticate)

(***************************************************************************)
(* The session with the logs of the outbound direction kept, against a     *)
(* server that declares a lifetime of 120 s and an interval of 30 s.        *)
(***************************************************************************)
LogInit ==
    /\ serverAuth = <<"1", "2", "0">>
    /\ serverKeepalive = <<"3", "0">>
    /\ history = TRUE
    /\ SessionInit

LogSpec == LogInit /\ [][Next]_vars

(***************************************************************************)
(* The keepalive sequence harness: seqN calls of keepalive() on a session  *)
(* whose counter starts at seqStart, then seqN keepalive acknowledgments   *)
(* through the inbound handler's Control branch, nothing in between.       *)
(***************************************************************************)
\* counter values the run loop reaches: 0..3, and the values below zero
SeqStarts ==
    {U64Of(n) : n \in 0..KeepaliveLimit} \cup {U64Max, FetchSub(U64Max)}

SeqInit ==
    /\ serverAuth = <<"1", "2", "0">>
    /\ serverKeepalive = <<"3", "0">>
    /\ reauth = FALSE
    /\ cookie = InitCookie
    /\ session_id = InitSessionId
    /\ auth_timeout = 60
    /\ keepalive = 30
    /\ ip_address = AssignedIp
    /\ seqStart \in SeqStarts
    /\ keepalive_counter = seqStart
    /\ mainPc = "harness"
    /\ helloResult = "ok"
    /\ helloSent = <<NewHelloRequest(UnassignedIp, InitCookie, FALSE)>>
    /\ helloSeen = <<Control(HelloReplyName,
                             HelloReplyValue(<<"1", "2", "0">>, <<"3", "0">>))>>
    /\ runResult = "running"
    /\ tunEvent = "none"
    /\ elapsed = 0
    /\ tunCount = 0
    /\ pump \in {"running", "done"}
    /\ outQ = <<>>
    /\ inQ = <<>>
    /\ nRead = 1
    /\ handlerPc = "recv"
    /\ handlerItem = 0
    /\ tunWritten = <<>>
    /\ unacked = 0
    /\ seqN \in 0..MaxSeqN
    /\ seqCalls = 0
    /\ seqAcks = 0
    /\ history = FALSE
    /\ enqueued = <<>>
    /\ wired = <<>>
    /\ decoded = <<>>
    /\ authResp = [failed |-> TRUE]
    /\ authResult = None

\* one call of keepalive(), start to end: the check, the fetch_add and the
\* send, whose packet the pump writes within the step when the channel is open
SeqCall ==
    /\ mainPc = "harness"
    /\ seqCalls < seqN
    /\ seqCalls' = seqCalls + 1
    /\ IF KeepaliveStuck(keepalive_counter)
       THEN UNCHANGED keepalive_counter
       ELSE keepalive_counter' = FetchAdd(keepalive_counter)
    /\ UNCHANGED <<serverVars, sessionVars, mainVars, channelVars, handlerVars,
                   unacked, seqStart, seqN, seqAcks,
                   logVars, authVars>>

\* the inbound handler takes one keepalive acknowledgment
SeqAck ==
    /\ mainPc = "harness"
    /\ seqCalls = seqN
    /\ seqAcks < seqN
    /\ seqAcks' = seqAcks + 1
    /\ keepalive_counter' = InboundControl(KeepaliveName, keepalive_counter)
    /\ UNCHANGED <<serverVars, sessionVars, mainVars, channelVars, handlerVars,
                   unacked, seqStart, seqN, seqCalls,
                   logVars, authVars>>

SeqNext == SeqCall \/ SeqAck

SeqSpec == SeqInit /\ [][SeqNext]_vars

(***************************************************************************)
(* The authenticate harness: one call of SnxClient::authenticate on a      *)
(* response of the authenticator.                                          *)
(***************************************************************************)
\* hex("cookie123")
HexCookie123 ==
    <<"6", "3", "6", "f", "6", "f", "6", "b", "6", "9", "6", "5", "3", "1", "3", "2",
      "3", "3">>

AuthFlags == {"true", "false", "True", ""}

AuthKeys ==
    {None, Some(HexCookie123), Some(<<"6", "3", "3", "2">>), Some(<<"f", "f">>),
     Some(<<>>), Some(<<"6", "3", "z">>), Some(<<"6", "3", "3">>)}

AuthSessionIds == {None, Some("sess1"), Some("sess2")}

\* what the authenticator may answer; failed: the call itself fails
AuthInputs ==
    {[failed |-> FALSE, is_authenticated |-> f, active_key |-> k, session_id |-> i] :
        f \in AuthFlags, k \in AuthKeys, i \in AuthSessionIds}
    \cup {[failed |-> TRUE]}

AuthInit ==
    /\ serverAuth = <<"1", "2", "0">>
    /\ serverKeepalive = <<"3", "0">>
    /\ reauth = FALSE
    /\ cookie = InitCookie
    /\ session_id = InitSessionId
    /\ auth_timeout = 60
    /\ keepalive = 30
    /\ ip_address = AssignedIp
    /\ seqStart = U64Zero
    /\ keepalive_counter = U64Zero
    /\ mainPc = "harness"
    /\ helloResult = "ok"
    /\ helloSent = <<NewHelloRequest(UnassignedIp, InitCookie, FALSE)>>
    /\ helloSeen = <<Control(HelloReplyName,
                             HelloReplyValue(<<"1", "2", "0">>, <<"3", "0">>))>>
    /\ runResult = "running"
    /\ tunEvent = "none"
    /\ elapsed = 0
    /\ tunCount = 0
    /\ pump = "running"
    /\ outQ = <<>>
    /\ inQ = <<>>
    /\ nRead = 1
    /\ handlerPc = "recv"
    /\ handlerItem = 0
    /\ tunWritten = <<>>
    /\ unacked = 0
    /\ seqN = 0
    /\ seqCalls = 0
    /\ seqAcks = 0
    /\ history = FALSE
    /\ enqueued = <<>>
    /\ wired = <<>>
    /\ decoded = <<>>
    /\ authResp \in AuthInputs
    /\ authResult = None

\* client.authenticate(session_id): the response is matched and the key decoded
AuthCall ==
    /\ mainPc = "harness"
    /\ ~authResult.some
    /\ authResult' = Some(Authenticate(authResp))
    /\ UNCHANGED <<serverVars, sessionVars, keepalive_counter, mainVars, channelVars,
                   handlerVars, unacked, seqVars, logVars, authResp>>

AuthNext == AuthCall

AuthSpec == AuthInit /\ [][AuthNext]_vars

(***************************************************************************)
(* Properties.                                                             *)
(***************************************************************************)
\* the step in which keepalive() is entered and loads the counter
KeepaliveCalled ==
    /\ mainPc = "select"
    /\ \/ mainPc' = "ka_add"
       \/ mainPc' = "terminated" /\ runResult' = ErrStuck

\* keepalive() up to its send: at 3 or more the call fails, enqueues nothing
\* and leaves the counter; below 3 it goes on to add exactly one
KeepaliveCheckAndAdd ==
    /\ KeepaliveCalled /\ U64Ge(keepalive_counter, 3) =>
          /\ mainPc' = "terminated"
          /\ runResult' = ErrStuck
          /\ outQ' = outQ
          /\ keepalive_counter' = keepalive_counter
    /\ KeepaliveCalled /\ ~U64Ge(keepalive_counter, 3) =>
          /\ mainPc' = "ka_add"
          /\ runResult' = runResult
          /\ outQ' = outQ
          /\ keepalive_counter' = keepalive_counter
    /\ mainPc = "ka_add" /\ mainPc' # "ka_add" =>
          /\ mainPc' = "ka_send"
          /\ keepalive_counter' = U64Inc(keepalive_counter, 1)
          /\ outQ' = outQ

\* C1 as stated: whenever the counter is >= 3 when send_keepalive() is called
\* the call fails with the stuck error, enqueues nothing and leaves the
\* counter; whenever it is < 3 the call adds exactly one and then enqueues
\* exactly one keepalive request.
C1_KeepaliveAlwaysEnqueues ==
    [][/\ KeepaliveCheckAndAdd
       /\ mainPc = "ka_send" /\ mainPc' # "ka_send" =>
             /\ keepalive_counter' = keepalive_counter
             /\ outQ' = Append(outQ, KeepalivePacket)]_vars

\* C1 amended: as C1, but the keepalive request is enqueued only while the
\* packet channel is open; once the pump task has ended the send fails, the
\* call returns that error with the counter still incremented and nothing
\* enqueued.
C1_KeepaliveContract ==
    [][/\ KeepaliveCheckAndAdd
       /\ mainPc = "ka_send" /\ mainPc' # "ka_send" =>
             /\ keepalive_counter' = keepalive_counter
             /\ \/ /\ pump = "running"
                   /\ outQ' = Append(outQ, KeepalivePacket)
                   /\ mainPc' \in {"select", "reauth"}
                   /\ runResult' = runResult
                \/ /\ pump = "done"
                   /\ outQ' = outQ
                   /\ mainPc' = "terminated"
                   /\ runResult' = ErrSend]_vars

\* the fourth unanswered call has failed at a counter of exactly 3
C1_Witness ==
    /\ runResult = ErrStuck
    /\ keepalive_counter = U64Of(3)
    /\ outQ = <<>>

\* C2: in every reachable state the liveness counter is in 0..3 (an
\* acknowledgment at 0 leaves it at 0, never wrapping the 64-bit value).
C2_CounterInRange ==
    U64IsSmall(keepalive_counter) /\ keepalive_counter[1] <= 3

\* C3: the run loop ends with the liveness error only when at least 3 probes
\* sent since the last inbound Data message remain unacknowledged.
C3_StuckOnlyWhenUnanswered ==
    runResult = ErrStuck => unacked >= 3

\* the harness has made its seqN calls and taken its seqN acknowledgments
SeqDone == mainPc = "harness" /\ seqCalls = seqN /\ seqAcks = seqN

\* C4 as stated: for every N and every starting value, N send_keepalive()
\* calls followed by N acknowledgments return the counter to its start.
C4_SequenceAlwaysReturns ==
    SeqDone => keepalive_counter = seqStart

\* C4 amended: for every starting value c and every N with c + N <= 3, so
\* that none of the N calls meets the liveness limit, N send_keepalive() calls
\* followed by N acknowledgments return the counter to c.
C4_SequenceReturns ==
    SeqDone /\ U64IsSmall(seqStart) /\ seqStart[1] + seqN <= 3 =>
        keepalive_counter = seqStart

\* two calls from 1, two acknowledgments, and the counter is 1 again
C4_Witness ==
    /\ SeqDone
    /\ seqN = 2
    /\ seqStart = U64Of(1)
    /\ keepalive_counter = U64Of(1)

\* C5: the inbound handler's step for a Data message leaves the counter at 0
\* whatever it was, and the interface write that follows, failing or not,
\* leaves the counter alone.
C5_DataResetsCounter ==
    [][/\ handlerPc = "recv" /\ handlerPc' = "write" =>
             keepalive_counter' = U64Zero
       /\ handlerPc = "write" /\ handlerPc' # "write" =>
             /\ handlerPc' \in {"recv", "failed"}
             /\ keepalive_counter' = keepalive_counter]_vars

\* a Data message arrived after a probe, its interface write failed, and the
\* counter is 0
C5_Witness ==
    /\ handlerPc = "failed"
    /\ keepalive_counter = U64Zero
    /\ mainPc = "select"
    /\ outQ = <<KeepalivePacket>>

\* the only message client_hello consumed, when it consumed one
HelloReplySeen == helloSeen[1]

\* client_hello consumed a handshake reply whose value deserialises
ValidReplySeen ==
    /\ Len(helloSeen) = 1
    /\ HelloReplySeen.type = "Control"
    /\ HelloReplySeen.name = HelloReplyName
    /\ HelloReplySeen.value.valid

\* ip_address, auth_timeout and keepalive_interval as create_tunnel set them
Unestablished ==
    /\ ip_address = UnassignedIp
    /\ auth_timeout = 0
    /\ keepalive = 0

\* C6: when the first inbound message is a handshake reply whose timeout
\* fields parse as integers a and k, client_hello succeeds with the reply's
\* address, auth_timeout = a - 60 and keepalive_interval = k, having sent one
\* hello with keep_address = false and consumed one inbound message.
C6_HelloSucceeds ==
    /\ Len(helloSeen) <= 1
    /\ ValidReplySeen
       /\ ParseU64(HelloReplySeen.value.authentication).some
       /\ ParseU64(HelloReplySeen.value.keepalive).some =>
          /\ helloResult = "ok"
          /\ ip_address = HelloReplySeen.value.ipaddr
          /\ auth_timeout = ParseU64(HelloReplySeen.value.authentication).val - 60
          /\ keepalive = ParseU64(HelloReplySeen.value.keepalive).val
          /\ helloSent = <<NewHelloRequest(UnassignedIp, InitCookie, FALSE)>>

\* C7: for a declared lifetime a with 0 <= a <= 60, client_hello does not
\* panic and yields a zero auth_timeout.
C7_ShortLifetimeNoPanic ==
    ValidReplySeen
    /\ ParseU64(HelloReplySeen.value.authentication).some
    /\ ParseU64(HelloReplySeen.value.authentication).val <= 60 =>
        /\ helloResult # Panic
        /\ auth_timeout = 0

\* the errors client_hello returns
HelloErrors ==
    {ErrSend, ErrChannelClosed, ErrUnexpectedReply, ErrSerde, ErrInvalidAuthTimeout,
     ErrInvalidKeepalive}

\* C8: every failing client_hello leaves ip_address, auth_timeout and
\* keepalive_interval at their values before the call.
C8_FailureLeavesFields ==
    helloResult \in HelloErrors => Unestablished

\* client_hello has returned or panicked
HelloReturned == mainPc \notin {"connected", "hello_recv"}

\* C9 as stated: client_hello always returns.
C9_HelloAlwaysReturns == <>HelloReturned

\* C9 amended: client_hello returns whenever the channel closes or an inbound
\* message is queued (it sets no timeout of its own, so it waits for as long as
\* the transport stays open and silent).  If the channel closes after the hello
\* is sent and before any message arrives it fails with the channel-closed
\* error; if the first inbound message is no handshake-reply Control message it
\* fails with the unexpected-reply error; in both cases the session stays
\* un-established.
C9_HelloReturnsOnCloseOrMessage ==
    /\ [](helloResult = ErrChannelClosed =>
            /\ mainPc = "hello_failed"
            /\ pump = "done"
            /\ Len(helloSent) = 1
            /\ helloSeen = <<>>
            /\ Unestablished)
    /\ [](Len(helloSeen) = 1
          /\ ~(HelloReplySeen.type = "Control" /\ HelloReplySeen.name = HelloReplyName) =>
            /\ mainPc = "hello_failed"
            /\ helloResult = ErrUnexpectedReply
            /\ Unestablished)
    /\ [][mainPc = "hello_recv" /\ Len(inQ) = 0 /\ mainPc' # "hello_recv" =>
            helloResult' = ErrChannelClosed]_vars
    /\ (mainPc = "hello_recv" /\ (pump = "done" \/ Len(inQ) > 0)) ~> HelloReturned

\* the transport closed with the hello sent and nothing received, and
\* client_hello has failed with the channel-closed error
C9_Witness ==
    /\ helloResult = ErrChannelClosed
    /\ mainPc = "hello_failed"
    /\ pump = "done"
    /\ nRead = 0

\* C10: run returns success if and only if the virtual interface's stream
\* ended with no error; every other end of the loop is the error raised.
C10_SuccessIffStreamEnds ==
    /\ runResult = "ok" <=> tunEvent = "end"
    /\ mainPc = "terminated" <=> runResult # "running"

\* the run loop is running
InRun == mainPc \in {"select", "ka_add", "ka_send", "tun_send", "reauth", "reauth_send"}

\* no inbound message is queued for the handler or in its hands
Quiet == Len(inQ) = 0 /\ handlerPc # "write"

\* C11: if from some point on no inbound message is delivered while the run
\* loop is running, the run loop eventually terminates, for every pattern of
\* traffic of the virtual interface: it cannot go on running for ever with
\* nothing inbound.
C11_QuietRunTerminates == []<>(~InRun \/ ~Quiet)

\* C12: with reauthentication enabled, at no moment of the run loop has the
\* server-declared credential lifetime (auth_timeout + 60 seconds, measured
\* from the start of the loop or from the last successful reauthentication)
\* elapsed: reauthenticate() is invoked before that, for every negotiated
\* keepalive_interval and every traffic pattern.
C12_ReauthBeforeExpiry ==
    reauth /\ InRun => elapsed < auth_timeout + REAUTH_LEEWAY

\* the hello a reauthentication sends: the session's cookie and address, and
\* keep_address = true
IsRefreshHello(p) ==
    /\ p.type = "Control"
    /\ p.name = ClientHelloName
    /\ p.value.cookie = cookie
    /\ p.value.office_mode.ipaddr = ip_address
    /\ p.value.office_mode.keep_address = "true"

\* C13: session_id and cookie are never partially updated: reauthenticate()
\* either replaces both with the result of the authentication or, when the
\* authentication fails, changes neither and returns the error; the hello it
\* then sends carries the new cookie, the assigned ip_address and
\* keep_address = true, and the call takes no inbound message; nothing else
\* changes either field.
C13_ReauthReplacesBoth ==
    [][/\ mainPc = "reauth" /\ mainPc' # "reauth" =>
             /\ inQ' = inQ
             /\ outQ' = outQ
             /\ \/ /\ mainPc' = "reauth_send"
                   /\ runResult' = runResult
                   /\ \E resp \in AuthResponses :
                         /\ Authenticate(resp).ok
                         /\ session_id' = Authenticate(resp).session_id
                         /\ cookie' = Authenticate(resp).cookie
                \/ /\ mainPc' = "terminated"
                   /\ runResult' \in {ErrAuthenticator, ErrAuthFailed, ErrHex}
                   /\ session_id' = session_id
                   /\ cookie' = cookie
       /\ mainPc = "reauth_send" /\ mainPc' # "reauth_send" =>
             /\ inQ' = inQ
             /\ \/ /\ pump = "running"
                   /\ mainPc' = "select"
                   /\ Len(outQ') = Len(outQ) + 1
                   /\ SubSeq(outQ', 1, Len(outQ)) = outQ
                   /\ IsRefreshHello(outQ'[Len(outQ')])
                \/ /\ pump = "done"
                   /\ mainPc' = "terminated"
                   /\ runResult' = ErrSend
                   /\ outQ' = outQ
       /\ mainPc # "reauth" => session_id' = session_id /\ cookie' = cookie]_vars

\* a reauthentication has replaced both fields and queued its hello
C13_Witness ==
    /\ mainPc = "select"
    /\ session_id = "sess2"
    /\ cookie = <<99, 50>>
    /\ ip_address = AssignedIp
    /\ outQ = <<NewHelloRequest(AssignedIp, <<99, 50>>, TRUE)>>

IsPrefix(a, b) == Len(a) <= Len(b) /\ a = SubSeq(b, 1, Len(a))

\* the payloads of the Data messages of a queue, in order
DataOf(q) ==
    LET d == SelectSeq(q, LAMBDA pkt : pkt.type = "Data")
    IN  [i \in 1..Len(d) |-> d[i].data]

\* the payload the inbound handler has taken and not yet written
InHand == IF handlerPc = "write" THEN <<handlerItem>> ELSE <<>>

SendPcs == {"connected", "ka_send", "tun_send", "reauth_send"}

AuthDone == mainPc = "harness" /\ authResult.some /\ ~authResp.failed

\* is_authenticated is the literal "true" and active_key is present
AuthAccepted == authResp.is_authenticated = "true" /\ authResp.active_key.some

\* the scenario's stub: {"true", hex("cookie123"), "sess1"}
AuthStub ==
    [failed |-> FALSE, is_authenticated |-> "true", active_key |-> Some(HexCookie123),
     session_id |-> Some("sess1")]

\* "cookie123"
Cookie123 == <<99, 111, 111, 107, 105, 101, 49, 50, 51>>

\* C16 as stated: authenticate succeeds if and only if is_authenticated is the
\* literal "true" and active_key is present, returning the session id and the
\* cookie decoded from the hex key; every other response fails with exactly
\* "Authentication failed!".
C16_SuccessIffTrueAndKey ==
    AuthDone =>
        /\ authResult.val.ok <=> AuthAccepted
        /\ authResult.val.ok =>
              /\ authResp.session_id.some =>
                    authResult.val.session_id = authResp.session_id.val
              /\ authResult.val.cookie = Utf8Lossy(HexBytes(authResp.active_key.val))
        /\ ~authResult.val.ok => authResult.val.err = "Authentication failed!"

\* C16 amended: authenticate succeeds if and only if is_authenticated is the
\* literal "true", active_key is present and the key is a hex string,
\* returning the session id (the empty string when the response has none) and
\* the cookie decoded from the key (the stub {"true", hex("cookie123"),
\* "sess1"} gives ("sess1", "cookie123")); a present key that is no hex string
\* fails with the decoder's error; every other response fails with exactly
\* "Authentication failed!".
C16_SuccessIffTrueKeyAndHex ==
    AuthDone =>
        /\ authResult.val.ok <=>
              AuthAccepted /\ DecodeFromHex(authResp.active_key.val).some
        /\ authResult.val.ok =>
              /\ authResult.val.session_id =
                    IF authResp.session_id.some THEN authResp.session_id.val ELSE ""
              /\ authResult.val.cookie = Utf8Lossy(HexBytes(authResp.active_key.val))
        /\ authResp = AuthStub =>
              authResult.val = [ok |-> TRUE, session_id |-> "sess1", cookie |-> Cookie123]
        /\ AuthAccepted /\ ~authResult.val.ok => authResult.val.err = ErrHex
        /\ ~AuthAccepted => authResult.val.err = "Authentication failed!"

\* authenticate has returned ("sess1", "cookie123") for the stub's response
C16_Witness ==
    /\ AuthDone
    /\ authResp = AuthStub
    /\ authResult.val.ok
    /\ authResult.val.cookie = Cookie123

\* C17: in the run loop reauthenticate() is invoked only at the end of an
\* iteration, with reauthentication enabled and the time elapsed since the
\* reference point >= auth_timeout, and it is invoked whenever an iteration
\* ends so; the reference point is reset only by a reauthentication that
\* succeeded; with reauthentication disabled the run loop never invokes the
\* authenticator and never sends a hello.
C17_ReauthOnlyWhenDue ==
    [][/\ mainPc # "reauth" /\ mainPc' = "reauth" =>
             /\ mainPc \in {"ka_send", "tun_send"}
             /\ reauth
             /\ elapsed >= auth_timeout
             /\ elapsed' = elapsed
       /\ mainPc \in {"ka_send", "tun_send"} /\ mainPc' = "select" =>
             ~(reauth /\ elapsed >= auth_timeout)
       /\ InRun /\ elapsed' < elapsed =>
             /\ mainPc = "reauth_send"
             /\ mainPc' = "select"
             /\ pump = "running"
             /\ elapsed' = 0
       /\ InRun /\ ~reauth =>
             /\ mainPc' \notin {"reauth", "reauth_send"}
             /\ session_id' = session_id
             /\ cookie' = cookie
             /\ Len(outQ') > Len(outQ) /\ outQ'[Len(outQ')].type = "Control" =>
                   outQ'[Len(outQ')].name # ClientHelloName]_vars

\* an iteration ended 60 s after the start with auth_timeout = 60, and
\* reauthenticate() is about to run
C17_Witness ==
    /\ mainPc = "reauth"
    /\ reauth
    /\ auth_timeout = 60
    /\ elapsed = 60
    /\ session_id = InitSessionId

\* C18: once client_hello has set them, auth_timeout, keepalive_interval and
\* ip_address are left unchanged by every step that follows: the start of
\* run, keepalives, forwarded packets, reauthentication, and the inbound
\* handler taking any message, the reply to a refresh hello included.
C18_FieldsFixedInRun ==
    [][mainPc = "established" \/ InRun \/ mainPc = "terminated" =>
          /\ auth_timeout' = auth_timeout
          /\ keepalive' = keepalive
          /\ ip_address' = ip_address]_vars

\* two probes and a forwarded packet were sent, the session reauthenticated,
\* and the handler took the second inbound message, which was neither Data
\* nor an acknowledgment: the fields are as the handshake set them
C18_Witness ==
    /\ mainPc = "select"
    /\ session_id = "sess2"
    /\ tunCount = 1
    /\ keepalive_counter = U64Of(2)
    /\ unacked = 2
    /\ nRead = 2
    /\ inQ = <<>>
    /\ handlerPc = "recv"
    /\ tunWritten = <<>>
    /\ ip_address = AssignedIp
    /\ auth_timeout = 60
    /\ keepalive = 30

\* C19: if the inbound handler task exits because a write to the virtual
\* interface failed, the packet channel eventually closes and the run loop
\* eventually terminates instead of running on with inbound traffic
\* discarded.
C19_HandlerFailureEndsRun ==
    (handlerPc = "failed") ~> (pump = "done" /\ ~InRun)

\* C20: after the run loop has returned, with success or with an error, the
\* session takes no further step (its result and fields stay, it enqueues
\* nothing), and both background tasks eventually terminate: the pump task
\* observes the closed outbound queue and exits, and the inbound handler task
\* ends only once the pump task has.
C20_ReturnEndsTasks ==
    /\ [][mainPc = "terminated" =>
             /\ mainPc' = "terminated"
             /\ runResult' = runResult
             /\ UNCHANGED <<sessionVars, helloVars, tunEvent, elapsed, tunCount>>
             /\ Len(outQ') <= Len(outQ)]_vars
    /\ [](handlerPc = "done" => pump = "done")
    /\ (mainPc = "terminated") ~>
          (pump = "done" /\ outQ = <<>> /\ handlerPc \in {"done", "failed"})

\* the interface's stream ended with the server silent; the session was
\* dropped, the pump task wrote what was queued and exited, and the handler
\* saw end-of-stream
C20_Witness ==
    /\ mainPc = "terminated"
    /\ runResult = "ok"
    /\ tunEvent = "end"
    /\ nRead = 1
    /\ pump = "done"
    /\ handlerPc = "done"

====
